---- MODULE Spec2Model ----
(***************************************************************************)
(* Model of the of_dn_parser crate (src/src/lib.rs): the RFC 4514 parser   *)
(* DistinguishedName::from_str, the OpenFinance serializer to_of_string,   *)
(* the RFC 4518 comparator DnComparator / RdnComparator and the RdnType    *)
(* registry.                                                               *)
(*                                                                         *)
(* A Rust String / &str is a sequence of Unicode scalar values (naturals); *)
(* a byte buffer (Vec<u8>, s.bytes()) is a sequence of naturals < 256.     *)
(* Utf8Encode / Utf8Decode convert between the two as the standard library *)
(* does, so a buffer that is not UTF-8 is an error and not a string.       *)
(***************************************************************************)
EXTENDS Integers, Sequences, FiniteSets, TLC

\* ------------------------------------------------------------------------
\* Text literals.  Printable[i] is the ASCII character with code 31 + i
\* (the grave accent, which a string literal cannot hold, is spelled out).
Printable ==
  <<
       " ", "!", "\"", "#", "$", "%", "&", "'", "(", ")", "*", "+", ",", "-", ".", "/",
       "0", "1", "2", "3", "4", "5", "6", "7", "8", "9", ":", ";", "<", "=", ">", "?",
       "@", "A", "B", "C", "D", "E", "F", "G", "H", "I", "J", "K", "L", "M", "N", "O",
       "P", "Q", "R", "S", "T", "U", "V", "W", "X", "Y", "Z", "[", "\\", "]", "^", "_",
       "GRAVE", "a", "b", "c", "d", "e", "f", "g", "h", "i", "j", "k", "l", "m", "n", "o",
       "p", "q", "r", "s", "t", "u", "v", "w", "x", "y", "z", "{", "|", "}", "~" >>

Ord(c) == 31 + (CHOOSE i \in 1..95 : Printable[i] = c)

\* A string literal written as a tuple of one-character strings.
Str(t) == [i \in 1..Len(t) |-> Ord(t[i])]

COMMA == Ord(",")
EQUALS == Ord("=")
BACKSLASH == Ord("\\")
HASH == Ord("#")
PLUS == Ord("+")
SPACE == Ord(" ")

\* const ESCAPABLE_SYMBOLS: [char; 10]
ESCAPABLE_SYMBOLS ==
  {Ord(" "), Ord("\""), Ord("#"), Ord("+"), Ord(","), Ord(";"), Ord("<"),
   Ord("="), Ord(">"), Ord("\\")}

\* Vec::reverse
Reverse(v) == [i \in 1..Len(v) |-> v[Len(v) + 1 - i]]

\* The concatenation of a sequence of sequences (by halves, to keep the
\* evaluation shallow).
RECURSIVE Concat(_)
Concat(ss) ==
  IF ss = <<>> THEN <<>>
  ELSE IF Len(ss) = 1 THEN ss[1]
  ELSE LET h == Len(ss) \div 2 IN
    Concat(SubSeq(ss, 1, h)) \o Concat(SubSeq(ss, h + 1, Len(ss)))

\* ------------------------------------------------------------------------
\* std: char::is_whitespace (the White_Space property), char::is_control
\* (general category Cc), str::trim, make_ascii_lowercase, to_lowercase.
is_whitespace(c) ==
  \/ c \in 9..13
  \/ c \in {32, 133, 160, 5760, 8232, 8233, 8239, 8287, 12288}
  \/ c \in 8192..8202

is_control(c) == c \in 0..31 \/ c \in 127..159

\* str::trim: from the first to the last character that is not white space.
trim(t) ==
  LET keep == {i \in 1..Len(t) : ~is_whitespace(t[i])} IN
  IF keep = {} THEN <<>>
  ELSE SubSeq(t, CHOOSE i \in keep : \A j \in keep : i <= j,
                 CHOOSE i \in keep : \A j \in keep : j <= i)

AsciiLower(c) == IF c \in 65..90 THEN c + 32 ELSE c

make_ascii_lowercase(t) == [i \in 1..Len(t) |-> AsciiLower(t[i])]

\* The text matched as it is written, with no case folding.
to_lowercase_left_out(t) == t

\* str::to_lowercase.  Beyond ASCII the model holds only code points whose
\* Unicode lowercase mapping is themselves.
to_lowercase(t) == [i \in 1..Len(t) |-> AsciiLower(t[i])]

\* ------------------------------------------------------------------------
\* std: UTF-8.  str::from_utf8 / String::from_utf8 validate strictly (no
\* overlong forms, no surrogates, nothing above U+10FFFF).
Utf8Width(b) ==
  IF b < 128 THEN 1
  ELSE IF b \in 194..223 THEN 2
  ELSE IF b \in 224..239 THEN 3
  ELSE IF b \in 240..244 THEN 4
  ELSE 0

Utf8SecondOk(b, b2) ==
  IF b = 224 THEN b2 \in 160..191
  ELSE IF b = 237 THEN b2 \in 128..159
  ELSE IF b = 240 THEN b2 \in 144..191
  ELSE IF b = 244 THEN b2 \in 128..143
  ELSE b2 \in 128..191

Utf8SeqOk(bs, i, n) ==
  /\ i + n - 1 <= Len(bs)
  /\ n >= 2 => Utf8SecondOk(bs[i], bs[i + 1])
  /\ \A k \in 2..(n - 1) : bs[i + k] \in 128..191

Utf8CodePoint(bs, i, n) ==
  IF n = 1 THEN bs[i]
  ELSE IF n = 2 THEN (bs[i] - 192) * 64 + (bs[i + 1] - 128)
  ELSE IF n = 3 THEN
    (bs[i] - 224) * 4096 + (bs[i + 1] - 128) * 64 + (bs[i + 2] - 128)
  ELSE (bs[i] - 240) * 262144 + (bs[i + 1] - 128) * 4096
         + (bs[i + 2] - 128) * 64 + (bs[i + 3] - 128)

RECURSIVE Utf8DecodeFrom(_, _)
Utf8DecodeFrom(bs, i) ==
  IF i > Len(bs) THEN [ok |-> TRUE, s |-> <<>>]
  ELSE LET n == Utf8Width(bs[i]) IN
    IF n = 0 \/ ~Utf8SeqOk(bs, i, n) THEN [ok |-> FALSE, s |-> <<>>]
    ELSE LET rest == Utf8DecodeFrom(bs, i + n) IN
      IF rest.ok
      THEN [ok |-> TRUE, s |-> <<Utf8CodePoint(bs, i, n)>> \o rest.s]
      ELSE rest

\* from_utf8(bytes): [ok, s], s the decoded string when ok.  A buffer of
\* ASCII bytes is its own decoding.
Utf8Decode(bs) ==
  IF \A i \in 1..Len(bs) : bs[i] < 128 THEN [ok |-> TRUE, s |-> bs]
  ELSE Utf8DecodeFrom(bs, 1)

Utf8EncodeChar(c) ==
  IF c < 128 THEN <<c>>
  ELSE IF c < 2048 THEN <<192 + (c \div 64), 128 + (c % 64)>>
  ELSE IF c < 65536 THEN
    <<224 + (c \div 4096), 128 + ((c \div 64) % 64), 128 + (c % 64)>>
  ELSE <<240 + (c \div 262144), 128 + ((c \div 4096) % 64),
         128 + ((c \div 64) % 64), 128 + (c % 64)>>

\* str::bytes / str::as_bytes
Utf8Encode(t) == Concat([i \in 1..Len(t) |-> Utf8EncodeChar(t[i])])

\* ------------------------------------------------------------------------
\* The hex crate: decode, decode_to_slice, encode.
HexVal(b) ==
  IF b \in 48..57 THEN b - 48
  ELSE IF b \in 97..102 THEN b - 87
  ELSE IF b \in 65..70 THEN b - 55
  ELSE -1

HexDigit(n) == IF n < 10 THEN 48 + n ELSE 87 + n

\* hex::decode(data): [ok, bytes]; an odd length or a non-digit is an error.
hex_decode(data) ==
  IF Len(data) % 2 # 0 \/ \E i \in 1..Len(data) : HexVal(data[i]) < 0
  THEN [ok |-> FALSE, bytes |-> <<>>]
  ELSE [ok |-> TRUE,
        bytes |-> [i \in 1..(Len(data) \div 2) |->
                     HexVal(data[2 * i - 1]) * 16 + HexVal(data[2 * i])]]

\* hex::encode(data): two lowercase digits per byte.
hex_encode(data) ==
  [i \in 1..(2 * Len(data)) |->
     IF i % 2 = 1 THEN HexDigit(data[(i + 1) \div 2] \div 16)
     ELSE HexDigit(data[i \div 2] % 16)]

\* ------------------------------------------------------------------------
\* enum RdnType and its static metadata.
RdnType ==
  {"Cn", "L", "St", "O", "Ou", "C", "Street", "Dc", "Uid", "BusinessCategory",
   "JurisdictionCountryName", "SerialNumber", "OrganizationIdentifier",
   "OrganizationalUnitName"}

\* RdnType::as_of_str
as_of_str(self) ==
  CASE
       self = "Cn" -> Str(<<"C", "N">>)
    [] self = "L" -> Str(<<"L">>)
    [] self = "St" -> Str(<<"S", "T">>)
    [] self = "O" -> Str(<<"O">>)
    [] self = "Ou" -> Str(<<"O", "U">>)
    [] self = "C" -> Str(<<"C">>)
    [] self = "Street" -> Str(<<"S", "t", "r", "e", "e", "t">>)
    [] self = "Dc" -> Str(<<"D", "C">>)
    [] self = "Uid" -> Str(<<"U", "I", "D">>)
    [] self = "BusinessCategory" -> Str(<<"2", ".", "5", ".", "4", ".", "1", "5">>)
    [] self = "JurisdictionCountryName" -> Str(<<"1", ".", "3", ".", "6", ".", "1", ".", "4", ".", "1", ".", "3", "1", "1", ".", "6", "0", ".", "2", ".", "1", ".", "3">>)
    [] self = "SerialNumber" -> Str(<<"2", ".", "5", ".", "4", ".", "5">>)
    [] self = "OrganizationIdentifier" -> Str(<<"2", ".", "5", ".", "4", ".", "9", "7">>)
    [] self = "OrganizationalUnitName" -> Str(<<"2", ".", "5", ".", "4", ".", "1", "1">>)

\* RdnType::of_encodes_as_hex
of_encodes_as_hex(self) ==
  self \in {"BusinessCategory", "JurisdictionCountryName", "SerialNumber",
            "OrganizationIdentifier", "OrganizationalUnitName"}

\* is_comparison_case_sensitive with St left out of the list.
is_comparison_case_sensitive_without_st(self) ==
  self \in {"Cn", "L", "O", "Ou", "C", "JurisdictionCountryName",
            "OrganizationalUnitName"}

\* RdnType::is_comparison_case_sensitive
is_comparison_case_sensitive(self) ==
  self \in {"Cn", "L", "St", "O", "Ou", "C", "JurisdictionCountryName",
            "OrganizationalUnitName"}

\* The match arms of <RdnType as FromStr>::from_str.
RdnTypeTable ==
  {
     [name |-> Str(<<"c", "n">>),
      ty |-> "Cn"],
     [name |-> Str(<<"2", ".", "5", ".", "4", ".", "3">>),
      ty |-> "Cn"],
     [name |-> Str(<<"l">>),
      ty |-> "L"],
     [name |-> Str(<<"2", ".", "5", ".", "4", ".", "7">>),
      ty |-> "L"],
     [name |-> Str(<<"s", "t">>),
      ty |-> "St"],
     [name |-> Str(<<"2", ".", "5", ".", "4", ".", "8">>),
      ty |-> "St"],
     [name |-> Str(<<"o">>),
      ty |-> "O"],
     [name |-> Str(<<"2", ".", "5", ".", "4", ".", "1", "0">>),
      ty |-> "O"],
     [name |-> Str(<<"o", "u">>),
      ty |-> "Ou"],
     [name |-> Str(<<"c">>),
      ty |-> "C"],
     [name |-> Str(<<"2", ".", "5", ".", "4", ".", "6">>),
      ty |-> "C"],
     [name |-> Str(<<"s", "t", "r", "e", "e", "t">>),
      ty |-> "Street"],
     [name |-> Str(<<"2", ".", "5", ".", "4", ".", "9">>),
      ty |-> "Street"],
     [name |-> Str(<<"d", "c">>),
      ty |-> "Dc"],
     [name |-> Str(<<"0", ".", "9", ".", "2", "3", "4", "2", ".", "1", "9", "2", "0", "0", "3", "0", "0", ".", "1", "0", "0", ".", "1", ".", "2", "5">>),
      ty |-> "Dc"],
     [name |-> Str(<<"u", "i", "d">>),
      ty |-> "Uid"],
     [name |-> Str(<<"0", ".", "9", ".", "2", "3", "4", "2", ".", "1", "9", "2", "0", "0", "3", "0", "0", ".", "1", "0", "0", ".", "1", ".", "1">>),
      ty |-> "Uid"],
     [name |-> Str(<<"b", "u", "s", "i", "n", "e", "s", "s", "c", "a", "t", "e", "g", "o", "r", "y">>),
      ty |-> "BusinessCategory"],
     [name |-> Str(<<"2", ".", "5", ".", "4", ".", "1", "5">>),
      ty |-> "BusinessCategory"],
     [name |-> Str(<<"j", "u", "r", "i", "s", "d", "i", "c", "t", "i", "o", "n", "c", "o", "u", "n", "t", "r", "y", "n", "a", "m", "e">>),
      ty |-> "JurisdictionCountryName"],
     [name |-> Str(<<"1", ".", "3", ".", "6", ".", "1", ".", "4", ".", "1", ".", "3", "1", "1", ".", "6", "0", ".", "2", ".", "1", ".", "3">>),
      ty |-> "JurisdictionCountryName"],
     [name |-> Str(<<"s", "e", "r", "i", "a", "l", "n", "u", "m", "b", "e", "r">>),
      ty |-> "SerialNumber"],
     [name |-> Str(<<"2", ".", "5", ".", "4", ".", "5">>),
      ty |-> "SerialNumber"],
     [name |-> Str(<<"o", "r", "g", "a", "n", "i", "z", "a", "t", "i", "o", "n", "i", "d", "e", "n", "t", "i", "f", "i", "e", "r">>),
      ty |-> "OrganizationIdentifier"],
     [name |-> Str(<<"2", ".", "5", ".", "4", ".", "9", "7">>),
      ty |-> "OrganizationIdentifier"],
     [name |-> Str(<<"o", "r", "g", "a", "n", "i", "z", "a", "t", "i", "o", "n", "a", "l", "u", "n", "i", "t", "n", "a", "m", "e">>),
      ty |-> "OrganizationalUnitName"],
     [name |-> Str(<<"2", ".", "5", ".", "4", ".", "1", "1">>),
      ty |-> "OrganizationalUnitName"]
  }

\* <RdnType as FromStr>::from_str(s): [ok, ty], the whole lowercased text
\* matched against the table; no match is Error::InvalidType(s).
RdnType_from_str(s) ==
  LET hits == {e \in RdnTypeTable : e.name = to_lowercase(s)} IN
  IF hits = {} THEN [ok |-> FALSE, ty |-> "None"]
  ELSE [ok |-> TRUE, ty |-> (CHOOSE e \in hits : TRUE).ty]

\* ------------------------------------------------------------------------
\* enum Error.  One record shape for every variant: ch is the character of
\* UnexpectedCharacter, text the string of InvalidType / InvalidValue.
Err(e) == [kind |-> "Err", err |-> e, ch |-> 0, text |-> <<>>]
ErrCh(c) == [kind |-> "Err", err |-> "UnexpectedCharacter", ch |-> c, text |-> <<>>]
ErrText(e, t) == [kind |-> "Err", err |-> e, ch |-> 0, text |-> t]
Ok == [kind |-> "Ok", err |-> "", ch |-> 0, text |-> <<>>]
Pending == [kind |-> "Pending", err |-> "", ch |-> 0, text |-> <<>>]

\* RelativeDistinguishedName::new
Rdn(t, v) == [ty |-> t, value |-> v]

\* ------------------------------------------------------------------------
\* DistinguishedName::to_of_string: the RDNs in reverse storage order.
\* The escaping with '#' taken for a symbol that needs no backslash.
EscapeChar_without_hash(c) ==
  IF c \in ESCAPABLE_SYMBOLS \ {HASH} THEN <<BACKSLASH, c>> ELSE <<c>>

\* if ESCAPABLE_SYMBOLS.contains(&c) { res.push('\\'); } res.push(c);
EscapeChar(c) == IF c \in ESCAPABLE_SYMBOLS THEN <<BACKSLASH, c>> ELSE <<c>>

RdnOfString(rdn) ==
  as_of_str(rdn.ty) \o <<EQUALS>> \o
  (IF of_encodes_as_hex(rdn.ty)
   THEN <<HASH>> \o hex_encode(Utf8Encode(rdn.value))
   ELSE Concat([i \in 1..Len(rdn.value) |-> EscapeChar(rdn.value[i])]))

\* to_of_string iterating in storage order (.rev() left out).
to_of_string_without_rev(self) ==
  Concat([i \in 1..Len(self) |->
            (IF i > 1 THEN <<COMMA>> ELSE <<>>) \o RdnOfString(self[i])])

\* for (i, rdn) in self.rdns.iter().rev().enumerate(): a comma before every
\* RDN but the first.
to_of_string(self) ==
  LET rev == Reverse(self) IN
  Concat([i \in 1..Len(rev) |->
            (IF i > 1 THEN <<COMMA>> ELSE <<>>) \o RdnOfString(rev[i])])

\* ------------------------------------------------------------------------
\* RdnComparator::new: the RFC 4518 character filter, the case folding, the
\* organizationIdentifier clean-up and the final trim.
Prohibited(c) ==
  \/ c \in {832, 833, 8206, 8207, 65533}
  \/ c \in 8234..8238
  \/ c \in 8298..8303
  \/ c \in 57344..63743
  \/ c \in 983040..1048573
  \/ c \in 1048576..1114109

SpaceEquivalent(c) == c \in 9..13 \/ c = 133 \/ is_whitespace(c)

Ignored(c) ==
  \/ c \in {173, 6150, 847, 65532, 8203}
  \/ c \in 6155..6157
  \/ c \in 65039..65280
  \/ is_control(c)

\* The closure with the ignored characters tested before the space
\* equivalents.
Classify_ignored_first(c) ==
  IF Prohibited(c) THEN "Prohibited"
  ELSE IF Ignored(c) THEN "Ignored"
  ELSE IF SpaceEquivalent(c) THEN "Space"
  ELSE "Keep"

\* The closure of filter_map, tested in the order of the if / else if chain.
Classify(c) ==
  IF Prohibited(c) THEN "Prohibited"
  ELSE IF SpaceEquivalent(c) THEN "Space"
  ELSE IF Ignored(c) THEN "Ignored"
  ELSE "Keep"

\* filter_map(..).collect::<Result<String>>(): the first prohibited
\* character ends the collection with its error.
FilterChar(c) ==
  IF Classify(c) = "Space" THEN <<SPACE>>
  ELSE IF Classify(c) = "Ignored" THEN <<>>
  ELSE <<c>>

FilterValue(t) ==
  LET bad == {i \in 1..Len(t) : Classify(t[i]) = "Prohibited"} IN
  IF bad # {}
  THEN [ok |-> FALSE, s |-> <<>>,
        ch |-> t[CHOOSE i \in bad : \A j \in bad : i <= j]]
  ELSE [ok |-> TRUE, ch |-> 0,
        s |-> Concat([i \in 1..Len(t) |-> FilterChar(t[i])])]

MARKER == Str(<<"o", "f", "b", "b", "r", "-">>)

\* str::rfind in the place of str::find: the last occurrence.
StrRFind(t, pat) ==
  LET at == {i \in 1..(Len(t) - Len(pat) + 1) :
               SubSeq(t, i, i + Len(pat) - 1) = pat} IN
  IF at = {} THEN 0 ELSE CHOOSE i \in at : \A j \in at : j <= i

\* str::find(pat): the index (from 1) of the first occurrence, 0 for None.
StrFind(t, pat) ==
  LET at == {i \in 1..(Len(t) - Len(pat) + 1) :
               SubSeq(t, i, i + Len(pat) - 1) = pat} IN
  IF at = {} THEN 0 ELSE CHOOSE i \in at : \A j \in at : i <= j

\* RdnComparator::new(rdn): [res, rdn], rdn the comparator when res is Ok.
RdnComparator_new(rdn) ==
  LET f == FilterValue(rdn.value)
      v == IF is_comparison_case_sensitive(rdn.ty) THEN f.s
           ELSE make_ascii_lowercase(f.s)
      idx == StrFind(v, MARKER)
  IN
  IF ~f.ok THEN [res |-> ErrCh(f.ch), rdn |-> Rdn(rdn.ty, <<>>)]
  ELSE IF rdn.ty = "OrganizationIdentifier"
  THEN IF idx = 0
       THEN [res |-> ErrText("InvalidValue", v), rdn |-> Rdn(rdn.ty, <<>>)]
       ELSE [res |-> Ok, rdn |-> Rdn(rdn.ty, trim(SubSeq(v, idx, Len(v))))]
  ELSE [res |-> Ok, rdn |-> Rdn(rdn.ty, trim(v))]

\* DnComparator::new: dn.iter().map(RdnComparator::new).collect(); the first
\* error, in storage order, is the result.
DnComparator_new(d) ==
  LET rs == [i \in 1..Len(d) |-> RdnComparator_new(d[i])]
      bad == {i \in 1..Len(d) : rs[i].res.kind # "Ok"}
  IN
  IF bad # {}
  THEN [res |-> rs[CHOOSE i \in bad : \A j \in bad : i <= j].res,
        rdns |-> <<>>]
  ELSE [res |-> Ok, rdns |-> [i \in 1..Len(d) |-> rs[i].rdn]]

\* ------------------------------------------------------------------------
\* The inputs of from_str.  First the texts of the crate's tests (test.rs).
\* static DISTINGUISHED_NAME of the test parse_dn.
DISTINGUISHED_NAME ==
  Str(<<"C", "N", "=", "w", "e", "b", ".", "c", "o", "n", "f", "t", "p", "p",
    ".", "d", "i", "r", "e", "c", "t", "o", "r", "y", ".", "o", "p", "e",
    "n", "b", "a", "n", "k", "i", "n", "g", "b", "r", "a", "s", "i", "l",
    ".", "o", "r", "g", ".", "b", "r", ",", "U", "I", "D", "=", "b", "c",
    "9", "7", "b", "8", "f", "0", "-", "c", "a", "e", "0", "-", "4", "f",
    "2", "f", "-", "9", "9", "7", "8", "-", "d", "9", "3", "f", "0", "e",
    "5", "6", "a", "8", "3", "3", ",", "2", ".", "5", ".", "4", ".", "9",
    "7", "=", "#", "0", "c", "2", "a", "4", "f", "4", "6", "4", "2", "4",
    "2", "5", "2", "2", "d", "6", "4", "3", "7", "3", "3", "3", "8", "3",
    "4", "6", "2", "6", "4", "3", "0", "2", "d", "3", "8", "3", "4", "3",
    "2", "6", "6", "2", "d", "3", "4", "3", "3", "6", "3", "3", "5", "2",
    "d", "6", "2", "6", "5", "3", "0", "3", "2", "2", "d", "3", "9", "6",
    "4", "3", "2", "6", "2", "3", "2", "6", "4", "3", "5", "6", "5", "6",
    "6", "6", "3", "3", "2", "6", "3", ",", "L", "=", "S", "A", "O", " ",
    "P", "A", "U", "L", "O", ",", "S", "T", "=", "S", "P", ",", "O", "=",
    "C", "h", "i", "c", "a", "g", "o", " ", "A", "d", "v", "i", "s", "o",
    "r", "y", " ", "P", "a", "r", "t", "n", "e", "r", "s", ",", "C", "=",
    "B", "R", ",", "2", ".", "5", ".", "4", ".", "5", "=", "#", "1", "3",
    "0", "e", "3", "4", "3", "3", "3", "1", "3", "4", "3", "2", "3", "6",
    "3", "6", "3", "6", "3", "0", "3", "0", "3", "0", "3", "1", "3", "9",
    "3", "7", ",", "1", ".", "3", ".", "6", ".", "1", ".", "4", ".", "1",
    ".", "3", "1", "1", ".", "6", "0", ".", "2", ".", "1", ".", "3", "=",
    "#", "1", "3", "0", "2", "4", "2", "5", "2", ",", "2", ".", "5", ".",
    "4", ".", "1", "5", "=", "#", "0", "c", "1", "4", "5", "0", "7", "2",
    "6", "9", "7", "6", "6", "1", "7", "4", "6", "5", "2", "0", "4", "f",
    "7", "2", "6", "7", "6", "1", "6", "e", "6", "9", "7", "a", "6", "1",
    "7", "4", "6", "9", "6", "f", "6", "e">>)

T_empty == <<>>

T_comma == Str(<<",">>)

T_backslash == Str(<<"\\">>)

T_equals == Str(<<"=">>)

T_no_equals == Str(<<"C", "N">>)

T_no_value == Str(<<"C", "N", "=", " ">>)

T_no_type == Str(<<" ", "=", "t", "e", "s", "t">>)

T_trim ==
  Str(<<" ", " ", "C", "N", " ", "=">>) \o <<9>> \o Str(<<" ", "t", "e", "s",
    "t", " ", " ", " ">>)

T_symbol_escape ==
  Str(<<"C", "N", "=", "t", "e", "s", "t", "\\", ",", "C", "\\", "=", "t",
    "e", "s", "t">>)

T_hex_escape == Str(<<"C", "N", "=", "\\", "6", "1">>)

T_bad_utf8_escape == Str(<<"C", "N", "=", "\\", "c", "3", "\\", "2", "8">>)

T_bad_utf8_hex == Str(<<"C", "N", "=", "#", "c", "3", "2", "8">>)

TestInputs ==
  {DISTINGUISHED_NAME, T_empty, T_comma, T_backslash, T_equals, T_no_equals, T_no_value,
   T_no_type, T_trim, T_symbol_escape, T_hex_escape, T_bad_utf8_escape, T_bad_utf8_hex}

\* Further texts: a hex value that decodes to white space, a '#' before the
\* type and a doubled '#', a comma after the last RDN, a '+' inside a hex
\* value, escaped '#' and '+',
\* organizationIdentifier values with and without the OFBBR- marker.
X_hex_space == Str(<<"C", "N", "=", "#", "2", "0">>)

X_hex_space_a == Str(<<"C", "N", "=", "#", "2", "0", "6", "1">>)

X_hash_before_type == Str(<<"#", "C", "N", "=", "6", "1">>)

X_double_hash == Str(<<"C", "N", "=", "#", "#", "6", "1">>)

X_trailing_comma == Str(<<"C", "N", "=", "a", ",">>)

X_two_rdns == Str(<<"C", "=", "1", ",", "L", "=", "2">>)

X_escaped_hash == Str(<<"C", "N", "=", "\\", "#", "6", "1">>)

X_escaped_plus == Str(<<"C", "N", "=", "a", "\\", "+", "b">>)

X_plus_in_hex == Str(<<"C", "N", "=", "#", "6", "+", "1">>)

X_orgid ==
  Str(<<"2", ".", "5", ".", "4", ".", "9", "7", "=", "#", "0", "c", "2", "a",
    "4", "f", "4", "6", "4", "2", "4", "2", "5", "2", "2", "d", "7", "8">>)

X_orgid_no_marker ==
  Str(<<"2", ".", "5", ".", "4", ".", "9", "7", "=", "#", "0", "c", "2", "a",
    "4", "f", "4", "6", "4", "2">>)

ExtraInputs ==
  {X_hex_space, X_hex_space_a, X_hash_before_type, X_double_hash, X_trailing_comma,
   X_plus_in_hex, X_two_rdns, X_escaped_hash, X_escaped_plus, X_orgid, X_orgid_no_marker}

\* The texts whose comparators are compared with one another.
K_st_upper == Str(<<"s", "t", "=", "S", "P">>)

K_st_lower == Str(<<"s", "t", "=", "s", "p">>)

K_cn_upper == Str(<<"c", "n", "=", "T", "e", "s", "t">>)

K_cn_lower == Str(<<"c", "n", "=", "t", "e", "s", "t">>)

K_dc_upper == Str(<<"d", "c", "=", "S", "P">>)

K_dc_lower == Str(<<"d", "c", "=", "s", "p">>)

CompareInputs ==
  {K_st_upper, K_st_lower, K_cn_upper, K_cn_lower, K_dc_upper, K_dc_lower}


\* ------------------------------------------------------------------------
\* Bounds of the explored inputs.
MaxLen == 5
MaxRdns == 3
MaxValueLen == 2
MaxBuiltRdns == 2
MaxRounds == 2

\* Every text of at most MaxLen characters over the structural bytes of the
\* grammar, a type letter that is also a hex digit, a digit and a space.
Alphabet ==
  {Ord("C"), Ord("2"), Ord(","), Ord("="), Ord("\\"), Ord("#"), Ord("+"),
   Ord(" ")}

ShortInputs == UNION {[1..n -> Alphabet] : n \in 0..MaxLen}

\* Texts of several RDNs: each segment is the text of one RDN, with the RDN
\* it denotes and the text the OpenFinance format gives it.
Segments ==
  << [text |-> Str(<<"C", "=", "1">>),
      rdn |-> Rdn("C", Str(<<"1">>)),
      of |-> Str(<<"C", "=", "1">>)],
     [text |-> Str(<<"L", "=", "2">>),
      rdn |-> Rdn("L", Str(<<"2">>)),
      of |-> Str(<<"L", "=", "2">>)],
     [text |-> Str(<<"s", "t", "=", "S", "P">>),
      rdn |-> Rdn("St", Str(<<"S", "P">>)),
      of |-> Str(<<"S", "T", "=", "S", "P">>)],
     [text |-> Str(<<"2", ".", "5", ".", "4", ".", "5", "=", "#", "3", "4",
                     "3", "2">>),
      rdn |-> Rdn("SerialNumber", Str(<<"4", "2">>)),
      of |-> Str(<<"2", ".", "5", ".", "4", ".", "5", "=", "#", "3", "4",
                   "3", "2">>)],
     [text |-> Str(<<" ", "C", "N", " ", "=", " ", "a", "\\", ",", "b", " ">>),
      rdn |-> Rdn("Cn", Str(<<"a", ",", "b">>)),
      of |-> Str(<<"C", "N", "=", "a", "\\", ",", "b">>)] >>

SegSeqs == UNION {[1..n -> 1..Len(Segments)] : n \in 1..MaxRdns}

JoinComma(ts) ==
  Concat([i \in 1..Len(ts) |-> (IF i > 1 THEN <<COMMA>> ELSE <<>>) \o ts[i]])

SegText(ix) == JoinComma([i \in 1..Len(ix) |-> Segments[ix[i]].text])
SegRdns(ix) == [i \in 1..Len(ix) |-> Segments[ix[i]].rdn]
SegOf(ix) == JoinComma([i \in 1..Len(ix) |-> Segments[ix[i]].of])

\* Each joined text with the segments it was joined from.
JoinedTable == {[ix |-> ix, text |-> SegText(ix)] : ix \in SegSeqs}

JoinedInputs == {e.text : e \in JoinedTable}

\* Texts of one RDN whose type is a name of the registry as from_str matches
\* it, the name in capitals, the name after "oid." or "OID.", or a text the
\* registry does not hold; R_padded has white space around the type.
AsciiUpper(c) == IF c \in 97..122 THEN c - 32 ELSE c

RegistryNames == {e.name : e \in RdnTypeTable}

OID_PREFIX == Str(<<"o", "i", "d", ".">>)

R_cn_lower == Str(<<"c", "n">>)
R_cn_upper == Str(<<"C", "N">>)
R_cn_mixed == Str(<<"c", "N">>)
R_cn_oid == Str(<<"2", ".", "5", ".", "4", ".", "3">>)
R_cn_oid_prefixed == Str(<<"o", "i", "d", ".", "2", ".", "5", ".", "4", ".", "3">>)
R_unknown == Str(<<"X", "x">>)
R_almost_cn == Str(<<"c", "n", "n">>)
R_almost_oid == Str(<<"2", ".", "5", ".", "4">>)
R_padded == Str(<<" ", "X", "x", " ">>)

RegistryTexts ==
  RegistryNames
    \cup {[i \in 1..Len(n) |-> AsciiUpper(n[i])] : n \in RegistryNames}
    \cup {OID_PREFIX \o n : n \in RegistryNames}
    \cup {[i \in 1..4 |-> AsciiUpper(OID_PREFIX[i])] \o n : n \in RegistryNames}
    \cup {R_cn_lower, R_cn_upper, R_cn_mixed, R_cn_oid, R_cn_oid_prefixed,
          R_unknown, R_almost_cn, R_almost_oid, R_padded}

RegistryInputs == {t \o Str(<<"=", "a">>) : t \in RegistryTexts}

Inputs == ShortInputs \cup JoinedInputs \cup TestInputs \cup ExtraInputs
            \cup CompareInputs \cup RegistryInputs

\* DNs assembled directly from RDNs (DistinguishedName { rdns }, as the test
\* correctly_escape_special_symbol_in_to_of_string does).  The values are not
\* empty: they are the values from_str can store, since every string that is
\* not empty is the decoding of some hex value.
ValueAlphabet ==
  {Ord("a"), Ord("A"), Ord(" "), Ord(","), Ord("#"), 9, 173, 8206}

ShortValues == UNION {[1..n -> ValueAlphabet] : n \in 1..MaxValueLen}

MarkerValues ==
  {pre \o mid \o post :
     pre \in {<<>>, Str(<<"x">>), Str(<<"X", " ">>), Str(<<"o", "f">>),
              <<8206>>},
     mid \in {MARKER, Str(<<"O", "F", "B", "B", "R", "-">>),
              Str(<<"o", "f", "b", "b", "r">>),
              Str(<<"o", "f">>) \o <<173>> \o Str(<<"b", "b", "r", "-">>)},
     post \in {<<>>, Str(<<"y">>), Str(<<"o", "f", "b", "b", "r", "-", "z">>),
               Str(<<" ">>)}}

T_escape_value ==
  Str(<<" ", "\"", ",", "#", "+", ",", ";", "<", "=", ">", "\\">>)

\* Values with characters of every class of the filter of RdnComparator::new:
\* TAB, FF, VT and NEL (controls that are white space), NBSP and LINE
\* SEPARATOR, SOFT HYPHEN, ZERO WIDTH SPACE, U+0001 and U+FEFF, LEFT-TO-RIGHT
\* MARK and the private use U+E000.
ClassifierValues ==
  {<<97, 9, 133, 98>>,
   <<133, 97, 12, 173, 11, 65, 133>>,
   <<97, 160, 66, 8232, 99>>,
   <<97, 173, 8203, 66, 1, 65279, 99>>,
   <<97, 57344, 98>>,
   <<97, 9, 8206, 57344>>,
   <<9, 173, 8206>>}

BuiltValues ==
  ShortValues \cup MarkerValues \cup {T_escape_value} \cup ClassifierValues

BuiltTypes == {"Cn", "Uid", "OrganizationIdentifier"}

SeqRdns ==
  << Rdn("Cn", Str(<<"a">>)),
     Rdn("OrganizationIdentifier", Str(<<"x", "O", "F", "B", "B", "R", "-", "y">>)),
     Rdn("OrganizationIdentifier", Str(<<"x">>)),
     Rdn("Uid", <<8206>>) >>

\* One RDN of every type of the registry: the value of the serializer's test,
\* a value of letters and a space, and one outside ASCII (U+00E9, U+20AC).
SweepValues == {T_escape_value, Str(<<"a", " ", "B">>), <<233, 8364>>}

SweepDns == {<<Rdn(t, v)>> : t \in RdnType, v \in SweepValues}

BuiltDns ==
  {<<Rdn(t, v)>> : t \in BuiltTypes, v \in BuiltValues}
    \cup SweepDns
    \cup UNION {{[i \in 1..n |-> SeqRdns[f[i]]] : f \in [1..n -> 1..Len(SeqRdns)]}
                  : n \in 2..MaxBuiltRdns}

\* ------------------------------------------------------------------------
\* State.
VARIABLES
  s,             \* the &str argument of the from_str call
  chars,         \* its items: s.bytes(); Eof follows the last byte
  pos,           \* the index in chars of the item the loop takes next
  rdns,          \* from_str: let mut rdns
  acc,           \* from_str: let mut acc
  escaping,      \* from_str: let mut escaping
  value_is_hex,  \* from_str: let mut value_is_hex
  ty,            \* from_str: let mut ty ("None" for None)
  pc,            \* "scan", "parsed", "built", "serialized", "compared",
                 \* "panicked"
  result,        \* what from_str returned: Pending, Ok or an Err
  dn,            \* the DistinguishedName's rdns (returned or assembled)
  out,           \* the String to_of_string returned
  round,         \* how many times an output of to_of_string was parsed again
  cmp,           \* what comparator() returned
  other          \* the text and the comparator of an earlier DN

vars ==
  <<s, chars, pos, rdns, acc, escaping, value_is_hex, ty, pc, result, dn, out,
    round, cmp, other>>

\* enum Escaping
EscNone == [st |-> "None", prev |-> 0]
EscStarted == [st |-> "Started", prev |-> 0]
EscHex(b) == [st |-> "Hex", prev |-> b]

NoCmp == [res |-> Pending, rdns |-> <<>>]
NoOther == [set |-> FALSE, s |-> <<>>, cmp |-> NoCmp]

\* The entry of from_str: the locals as lines 122-127 initialise them.
Call(text) ==
  /\ s' = text
  /\ chars' = Utf8Encode(text)
  /\ pos' = 1
  /\ rdns' = <<>>
  /\ acc' = <<>>
  /\ escaping' = EscNone
  /\ value_is_hex' = FALSE
  /\ ty' = "None"
  /\ pc' = "scan"
  /\ result' = Pending
  /\ dn' = <<>>
  /\ cmp' = NoCmp

Init ==
  /\ pos = 1
  /\ rdns = <<>>
  /\ acc = <<>>
  /\ escaping = EscNone
  /\ value_is_hex = FALSE
  /\ ty = "None"
  /\ result = Pending
  /\ out = <<>>
  /\ cmp = NoCmp
  /\ other = NoOther
  /\ \/ /\ s \in Inputs
        /\ chars = Utf8Encode(s)
        /\ dn = <<>>
        /\ round = 0
        /\ pc = "scan"
     \/ /\ s = <<>>
        /\ chars = <<>>
        /\ dn \in BuiltDns
        /\ round = 0
        /\ pc = "built"

\* enum ParseItem: Byte(b) is the byte b, Eof a value that is no byte.
Eof == -1

\* The item the for loop takes at pos: the bytes of s, then Eof.
Item == IF pos > Len(chars) THEN Eof ELSE chars[pos]

\* ParseItem::is_eof
AtEof == Item = Eof

\* is_pending answering true in every state, Escaping::None too.
is_pending_in_every_state(self) == self.st \in {"Started", "Hex", "None"}

\* Escaping::is_pending
is_pending(self) == self.st \in {"Started", "Hex"}

\* Escaping::consume with the test for an escaped symbol left out: every
\* escape is read as two hex digits.
Escaping_consume_hex_only(self, c) ==
  IF self.st = "None"
  THEN [panic |-> TRUE, ok |-> FALSE, esc |-> self, some |-> FALSE, byte |-> 0]
  ELSE IF self.st = "Started"
  THEN [panic |-> FALSE, ok |-> TRUE, esc |-> EscHex(c), some |-> FALSE,
        byte |-> 0]
  ELSE LET d == hex_decode(<<self.prev, c>>) IN
       IF d.ok
       THEN [panic |-> FALSE, ok |-> TRUE, esc |-> EscNone, some |-> TRUE,
             byte |-> d.bytes[1]]
       ELSE [panic |-> FALSE, ok |-> FALSE, esc |-> EscNone, some |-> FALSE,
             byte |-> 0]

\* Escaping::consume(c): [panic, ok, esc, some, byte]: the new state and,
\* when ok, Some(byte) or None; ~ok is the hex error of decode_to_slice;
\* panic is the unreachable!() of the arm Self::None.
Escaping_consume(self, c) ==
  IF self.st = "None"
  THEN [panic |-> TRUE, ok |-> FALSE, esc |-> self, some |-> FALSE, byte |-> 0]
  ELSE IF self.st = "Started"
  THEN IF c \in ESCAPABLE_SYMBOLS
       THEN [panic |-> FALSE, ok |-> TRUE, esc |-> EscNone, some |-> TRUE,
             byte |-> c]
       ELSE [panic |-> FALSE, ok |-> TRUE, esc |-> EscHex(c), some |-> FALSE,
             byte |-> 0]
  ELSE LET d == hex_decode(<<self.prev, c>>) IN
       IF d.ok
       THEN [panic |-> FALSE, ok |-> TRUE, esc |-> EscNone, some |-> TRUE,
             byte |-> d.bytes[1]]
       ELSE [panic |-> FALSE, ok |-> FALSE, esc |-> EscNone, some |-> FALSE,
             byte |-> 0]

\* unreachable!(): the thread panics and from_str returns nothing.
Panic ==
  /\ pc' = "panicked"
  /\ UNCHANGED <<s, chars, pos, rdns, acc, escaping, value_is_hex, ty, result,
                 dn, out, round, cmp, other>>

\* return Err(e): no DN is returned, the frame is dropped (the model keeps
\* the locals as the failing iteration found them).
Fail(e) ==
  /\ pc' = "parsed"
  /\ result' = e
  /\ UNCHANGED <<s, chars, pos, rdns, acc, escaping, value_is_hex, ty, dn, out,
                 round, cmp, other>>

\* Finish without rdns.reverse().
FinishWithoutReverse(rs, a, h, t) ==
  /\ pc' = "parsed"
  /\ result' = Ok
  /\ rdns' = rs
  /\ dn' = rs
  /\ acc' = a
  /\ value_is_hex' = h
  /\ ty' = t
  /\ UNCHANGED <<s, chars, pos, escaping, out, round, cmp, other>>

\* The loop is over (break, or the Eof item was handled): rdns.reverse();
\* Ok(Self { rdns }).
Finish(rs, a, h, t) ==
  /\ pc' = "parsed"
  /\ result' = Ok
  /\ rdns' = Reverse(rs)
  /\ dn' = Reverse(rs)
  /\ acc' = a
  /\ value_is_hex' = h
  /\ ty' = t
  /\ UNCHANGED <<s, chars, pos, escaping, out, round, cmp, other>>

\* The iteration ends and the loop takes the next item.
Continue(rs, a, e, h, t) ==
  /\ pos' = pos + 1
  /\ rdns' = rs
  /\ acc' = a
  /\ escaping' = e
  /\ value_is_hex' = h
  /\ ty' = t
  /\ UNCHANGED <<s, chars, pc, result, dn, out, round, cmp, other>>

\* The error of a missing value or type with the comma case forgotten.
EofOrCommaAlwaysEof == Err("UnexpectedEof")

\* Error::UnexpectedEof at Eof, Error::UnexpectedCharacter(',') at a comma.
EofOrComma == IF AtEof THEN Err("UnexpectedEof") ELSE ErrCh(COMMA)

\* if escaping.is_pending() { ... continue; }
ScanEscaped ==
  /\ pc = "scan"
  /\ is_pending(escaping)
  /\ IF AtEof THEN Fail(Err("UnexpectedEof"))
     ELSE LET r == Escaping_consume(escaping, Item) IN
       IF r.panic THEN Panic
       ELSE IF ~r.ok THEN Fail(Err("Hex"))
       ELSE Continue(rdns, IF r.some THEN Append(acc, r.byte) ELSE acc, r.esc,
                     value_is_hex, ty)

\* ParseItem::Byte(b',') | ParseItem::Eof
ScanSeparator ==
  /\ pc = "scan"
  /\ ~is_pending(escaping)
  /\ Item \in {COMMA, Eof}
  /\ LET u == Utf8Decode(acc)
         value == trim(u.s)
         h == hex_decode(Utf8Encode(value))
         hu == Utf8Decode(h.bytes)
         rdn_value == IF value_is_hex THEN hu.s ELSE value
         pushed == Append(rdns, Rdn(ty, rdn_value))
     IN
     IF ~u.ok THEN Fail(Err("Utf8"))
     ELSE IF value = <<>>
     THEN IF AtEof /\ ty = "None"
          THEN Finish(rdns, acc, value_is_hex, ty)
          ELSE Fail(EofOrComma)
     ELSE IF ty = "None" THEN Fail(EofOrComma)
     ELSE IF value_is_hex /\ ~h.ok THEN Fail(Err("Hex"))
     ELSE IF value_is_hex /\ ~hu.ok THEN Fail(Err("FromUtf8"))
     ELSE IF AtEof THEN Finish(pushed, <<>>, FALSE, "None")
     ELSE Continue(pushed, <<>>, escaping, FALSE, "None")

\* ParseItem::Byte(b'=')
ScanEquals ==
  /\ pc = "scan"
  /\ ~is_pending(escaping)
  /\ Item = EQUALS
  /\ LET u == Utf8Decode(acc)
         ty_str == trim(u.s)
         t == RdnType_from_str(ty_str)
     IN
     IF ty # "None" THEN Fail(ErrCh(EQUALS))
     ELSE IF ~u.ok THEN Fail(Err("Utf8"))
     ELSE IF ty_str = <<>> THEN Fail(ErrCh(EQUALS))
     ELSE IF ~t.ok THEN Fail(ErrText("InvalidType", ty_str))
     ELSE Continue(rdns, <<>>, escaping, value_is_hex, t.ty)

\* ParseItem::Byte(b'\\')
ScanBackslash ==
  /\ pc = "scan"
  /\ ~is_pending(escaping)
  /\ Item = BACKSLASH
  /\ Continue(rdns, acc, EscStarted, value_is_hex, ty)

\* ParseItem::Byte(b'#')
ScanHash ==
  /\ pc = "scan"
  /\ ~is_pending(escaping)
  /\ Item = HASH
  /\ IF acc = <<>>
     THEN Continue(rdns, acc, escaping, TRUE, ty)
     ELSE Continue(rdns, Append(acc, HASH), escaping, value_is_hex, ty)

\* A '+' taken as a literal byte.
ScanPlusAsLiteral ==
  /\ pc = "scan"
  /\ ~is_pending(escaping)
  /\ Item = PLUS
  /\ Continue(rdns, Append(acc, PLUS), escaping, value_is_hex, ty)

\* ParseItem::Byte(b'+')
ScanPlus ==
  /\ pc = "scan"
  /\ ~is_pending(escaping)
  /\ Item = PLUS
  /\ Fail(Err("UnsupportedMultiValueRdns"))

\* ParseItem::Byte(c)
ScanLiteral ==
  /\ pc = "scan"
  /\ ~is_pending(escaping)
  /\ Item \notin {Eof, COMMA, EQUALS, BACKSLASH, HASH, PLUS}
  /\ Continue(rdns, Append(acc, Item), escaping, value_is_hex, ty)

\* A DN is at hand: from_str returned Ok, or it was assembled.
HaveDn == (pc = "parsed" /\ result = Ok) \/ pc = "built"

\* dn.to_of_string()
ToOfString ==
  /\ HaveDn
  /\ out' = to_of_string(dn)
  /\ pc' = "serialized"
  /\ UNCHANGED <<s, chars, pos, rdns, acc, escaping, value_is_hex, ty, result,
                 dn, round, cmp, other>>

\* DistinguishedName::from_str(&out): the serialized text is parsed again.
Reparse ==
  /\ pc = "serialized"
  /\ round < MaxRounds
  /\ Call(out)
  /\ round' = round + 1
  /\ UNCHANGED <<out, other>>

\* dn.comparator()
Comparator ==
  /\ HaveDn
  /\ cmp' = DnComparator_new(dn)
  /\ pc' = "compared"
  /\ UNCHANGED <<s, chars, pos, rdns, acc, escaping, value_is_hex, ty, result,
                 dn, out, round, other>>

\* The caller keeps the comparator and parses a second text, to compare the
\* two comparators (DnComparator derives PartialEq).
ParseAnother ==
  /\ pc = "compared"
  /\ ~other.set
  /\ s \in CompareInputs
  /\ round = 0
  /\ other' = [set |-> TRUE, s |-> s, cmp |-> cmp]
  /\ \E text \in CompareInputs : Call(text)
  /\ UNCHANGED <<out, round>>

Next ==
  \/ ScanEscaped
  \/ ScanSeparator
  \/ ScanEquals
  \/ ScanBackslash
  \/ ScanHash
  \/ ScanPlus
  \/ ScanLiteral
  \/ ToOfString
  \/ Reparse
  \/ Comparator
  \/ ParseAnother

Spec == Init /\ [][Next]_vars

TypeOK ==
  /\ pc \in {"scan", "parsed", "built", "serialized", "compared", "panicked"}
  /\ result.kind \in {"Pending", "Ok", "Err"}
  /\ ty \in RdnType \cup {"None"}
  /\ \A i \in 1..Len(chars) : chars[i] \in 0..255
  /\ \A i \in 1..Len(acc) : acc[i] \in 0..255

\* ------------------------------------------------------------------------
\* Properties.

\* The types of DISTINGUISHED_NAME's RDNs, from left to right in the text.
TextualTypes ==
  <<"Cn", "Uid", "OrganizationIdentifier", "L", "St", "O", "C", "SerialNumber",
    "JurisdictionCountryName", "BusinessCategory">>

\* C1: round-trip fixed point.  Whenever a string that to_of_string produced
\* (from a parsed or an assembled DN) is parsed again, from_str succeeds, and
\* to_of_string of the DN parsed from it is that same string.
C1_RoundTripFixedPoint ==
  /\ (round >= 1 /\ pc = "parsed") => result = Ok
  /\ (round >= 1 /\ pc = "serialized") => out = s

\* C2: the stored order is the reverse of the textual order.  For an accepted
\* text of RDNs r1..rn (left to right) the DN, as iter() and comparator() show
\* it, is rn..r1: the same RDNs, none dropped, duplicated or moved elsewhere.
C2_CanonicalOrderReversed ==
  (round = 0 /\ pc \in {"parsed", "serialized", "compared"}) =>
    /\ \A e \in JoinedTable :
         s = e.text =>
           LET n == Len(e.ix) IN
           /\ result = Ok
           /\ Len(dn) = n
           /\ \A i \in 1..n : dn[i] = Segments[e.ix[n + 1 - i]].rdn
           /\ pc = "compared" =>
                /\ cmp.res = Ok
                /\ Len(cmp.rdns) = n
                /\ \A i \in 1..n :
                     cmp.rdns[i].ty = Segments[e.ix[n + 1 - i]].rdn.ty
    /\ s = DISTINGUISHED_NAME =>
         /\ result = Ok
         /\ Len(dn) = Len(TextualTypes)
         /\ \A i \in 1..Len(dn) : dn[i].ty = TextualTypes[Len(dn) + 1 - i]
         /\ pc = "compared" =>
              /\ cmp.res = Ok
              /\ Len(cmp.rdns) = Len(dn)
              /\ \A i \in 1..Len(dn) : cmp.rdns[i].ty = dn[i].ty

\* Three different RDNs were parsed and the comparator built: the last RDN of
\* the text is the first of the DN.
C2_Witness ==
  /\ round = 0
  /\ pc = "compared"
  /\ s = SegText(<<1, 2, 3>>)
  /\ Len(dn) = 3
  /\ dn[1].ty = "St"
  /\ dn[3].ty = "C"
  /\ cmp.res = Ok

\* C3 (as the spec states it): parsing a text of two RDNs A,B and calling
\* to_of_string yields the two RDNs in the opposite order, B,A.
C3_OrderInversion ==
  (round = 0 /\ pc = "serialized") =>
    \A e \in JoinedTable :
      (Len(e.ix) = 2 /\ s = e.text) => out = SegOf(<<e.ix[2], e.ix[1]>>)

\* C3 (amended): parsing a text of two RDNs A,B and calling to_of_string
\* yields the two RDNs in the order of the text, A,B.
C3_TextualOrderKept ==
  (round = 0 /\ pc = "serialized") =>
    \A e \in JoinedTable :
      (Len(e.ix) = 2 /\ s = e.text) => out = SegOf(e.ix)

\* "C=1,L=2" was parsed and serialized.
C3_Witness ==
  /\ round = 0
  /\ pc = "serialized"
  /\ s = X_two_rdns
  /\ s = SegText(<<1, 2>>)
  /\ out = Str(<<"C", "=", "1", ",", "L", "=", "2">>)

\* What C4 asks of one step of the scan.
C4_Case ==
  (pc = "scan" /\ ~is_pending(escaping)) =>
    LET u == Utf8Decode(acc)
        v == trim(u.s)
        pair == IF Item = Eof THEN Err("UnexpectedEof") ELSE ErrCh(COMMA)
    IN
    /\ (Item \in {COMMA, Eof} /\ u.ok /\ v = <<>>) =>
         IF Item = Eof /\ ty = "None"
         THEN pc' = "parsed" /\ result' = Ok /\ Len(dn') = Len(rdns)
         ELSE pc' = "parsed" /\ result' = pair /\ dn' = <<>>
    /\ (Item \in {COMMA, Eof} /\ u.ok /\ v # <<>> /\ ty = "None") =>
         (pc' = "parsed" /\ result' = pair /\ dn' = <<>>)
    /\ (Item = EQUALS /\ (ty # "None" \/ (u.ok /\ v = <<>>))) =>
         (pc' = "parsed" /\ result' = ErrCh(EQUALS) /\ dn' = <<>>)
    /\ chars = <<>> => (pc' = "parsed" /\ result' = Ok /\ dn' = <<>>)

\* C4: the finalization rule.  At an unescaped ',' and at Eof the accumulated
\* value is trimmed.  If it is empty the parse completes (Ok) only at Eof
\* with no type set, and otherwise fails with UnexpectedEof at Eof and
\* UnexpectedCharacter(',') at a comma; if it is not empty and no type was
\* set it fails with the same pair.  A '=' with a type already set, or with
\* an empty trimmed type text, fails with UnexpectedCharacter('=').  The
\* empty text yields a DN of zero RDNs.
C4_Finalization == [][C4_Case]_vars

\* A comma came after a type and a value of white space only ("C= ,"):
\* from_str returned UnexpectedCharacter(',').
C4_Witness ==
  /\ pc = "parsed"
  /\ result = ErrCh(COMMA)
  /\ Item = COMMA
  /\ ty = "C"
  /\ acc = <<SPACE>>

\* What C5 asks of one step of the scan.
C5_Case ==
  /\ (pc = "scan" /\ ~is_pending(escaping) /\ Item = BACKSLASH) =>
       /\ escaping' = EscStarted
       /\ pos' = pos + 1
       /\ UNCHANGED <<pc, acc, rdns, ty, value_is_hex, result>>
  /\ (pc = "scan" /\ escaping.st = "Hex") =>
       /\ pos >= 3
       /\ chars[pos - 2] = BACKSLASH
       /\ chars[pos - 1] = escaping.prev
  /\ (pc = "scan" /\ is_pending(escaping)) =>
       IF Item = Eof
       THEN pc' = "parsed" /\ result' = Err("UnexpectedEof") /\ dn' = <<>>
       ELSE IF escaping.st = "Started"
       THEN /\ pos' = pos + 1
            /\ UNCHANGED <<pc, rdns, ty, value_is_hex, result>>
            /\ IF Item \in ESCAPABLE_SYMBOLS
               THEN acc' = Append(acc, Item) /\ escaping' = EscNone
               ELSE acc' = acc /\ escaping' = EscHex(Item)
       ELSE IF HexVal(escaping.prev) >= 0 /\ HexVal(Item) >= 0
       THEN /\ pos' = pos + 1
            /\ UNCHANGED <<pc, rdns, ty, value_is_hex, result>>
            /\ acc' = Append(acc, 16 * HexVal(escaping.prev) + HexVal(Item))
            /\ escaping' = EscNone
       ELSE pc' = "parsed" /\ result' = Err("Hex") /\ dn' = <<>>

\* C5: the escaping sub-machine.  An unescaped backslash starts an escape.
\* If the next byte is a reserved symbol it is appended to the accumulator
\* and nothing else changes (no RDN ends, no type is set, no hex value
\* starts, no error); otherwise that byte and the one after it are read as
\* two hex digits and the one byte they encode is appended, or the parse
\* fails with the hex error.  Eof while an escape is pending (after the
\* backslash or after the first digit) is UnexpectedEof.
C5_Escaping == [][C5_Case]_vars

\* The test text CN=test\,C\=test was parsed: one RDN whose value holds the
\* escaped comma and the escaped equals sign.
C5_Witness ==
  /\ round = 0
  /\ pc = "parsed"
  /\ s = T_symbol_escape
  /\ result = Ok
  /\ dn = <<Rdn("Cn", Str(<<"t", "e", "s", "t", ",", "C", "=", "t", "e", "s",
                            "t">>))>>

\* A text of one RDN with no escape: one '=', no backslash, comma or plus.
SimpleText ==
  /\ Cardinality({i \in 1..Len(s) : s[i] = EQUALS}) = 1
  /\ \A i \in 1..Len(s) : s[i] \notin {BACKSLASH, COMMA, PLUS} /\ s[i] < 128

\* The characters after the '=' of a simple text.
ValueText ==
  SubSeq(s, 1 + (CHOOSE i \in 1..Len(s) : s[i] = EQUALS), Len(s))

\* C6: a value is a hex-octet string exactly when '#' is its first
\* character; what follows is then hex-decoded as one block and validated as
\* UTF-8, with no fallback; a '#' anywhere else (before or inside the type
\* text, after other value characters) never switches to hex decoding.  For
\* an accepted simple text: the stored value is the decoding of the
\* characters after the '#' when the value text starts with '#', and the
\* trimmed value text itself otherwise.
C6_HexExactlyWhenHashIsFirst ==
  (round = 0 /\ pc = "parsed" /\ result = Ok /\ SimpleText) =>
    /\ Len(dn) = 1
    /\ IF ValueText # <<>> /\ Head(ValueText) = HASH
       THEN LET h == hex_decode(trim(Tail(ValueText)))
                u == Utf8Decode(h.bytes)
            IN h.ok /\ u.ok /\ dn[1].value = u.s
       ELSE dn[1].value = trim(ValueText)

\* What C7 asks of one step of the scan.
C7_Case ==
  (pc = "scan" /\ ~is_pending(escaping) /\ Item = PLUS) =>
    /\ pc' = "parsed"
    /\ result' = Err("UnsupportedMultiValueRdns")
    /\ dn' = <<>>

\* C7: a '+' that is not part of an escape sequence aborts the parse at once
\* with UnsupportedMultiValueRdns, wherever it stands (type, literal value,
\* hex value) and whatever follows; no DN is returned.
C7_PlusRejected == [][C7_Case]_vars

\* A '+' inside a hex value, with more text after it ("CN=#6+1"): from_str
\* returned UnsupportedMultiValueRdns.
C7_Witness ==
  /\ pc = "parsed"
  /\ result = Err("UnsupportedMultiValueRdns")
  /\ s = X_plus_in_hex
  /\ Item = PLUS
  /\ ty = "Cn"
  /\ value_is_hex
  /\ acc # <<>>
  /\ pos < Len(chars)

\* The commas of an accepted text that no backslash escapes: those preceded
\* by an even number of backslashes (a hex escape holds no backslash).
BackslashesBefore(i) ==
  CHOOSE k \in 0..(i - 1) :
    /\ \A j \in 1..k : chars[i - j] = BACKSLASH
    /\ k = i - 1 \/ chars[i - k - 1] # BACKSLASH

UnescapedCommas ==
  {i \in 1..Len(chars) : chars[i] = COMMA /\ BackslashesBefore(i) % 2 = 0}

\* C8: from_str accepts only DN = RDN (',' RDN)* | empty: an accepted text
\* neither starts nor ends with an unescaped comma and has no two unescaped
\* commas in a row.
C8_GrammarOnly ==
  (round = 0 /\ pc = "parsed" /\ result = Ok) =>
    /\ 1 \notin UnescapedCommas
    /\ Len(chars) \notin UnescapedCommas
    /\ \A i \in UnescapedCommas : i + 1 \notin UnescapedCommas

\* C9 (as the spec states it): the comparators of "st=SP" and "st=sp" are
\* equal; those of "cn=Test" and "cn=test" are unequal.
C9_StFolded ==
  (pc = "compared" /\ other.set) =>
    /\ (other.s = K_st_upper /\ s = K_st_lower) => cmp = other.cmp
    /\ (other.s = K_cn_upper /\ s = K_cn_lower) => cmp # other.cmp

\* C9 (amended): the comparators of "st=SP" and "st=sp" are unequal, as are
\* those of "cn=Test" and "cn=test" (St and Cn are compared with their case);
\* the comparators of "dc=SP" and "dc=sp" are equal (Dc is folded).
C9_CaseFolding ==
  (pc = "compared" /\ other.set) =>
    /\ (other.s = K_st_upper /\ s = K_st_lower) =>
         (cmp.res = Ok /\ other.cmp.res = Ok /\ cmp # other.cmp)
    /\ (other.s = K_cn_upper /\ s = K_cn_lower) =>
         (cmp.res = Ok /\ other.cmp.res = Ok /\ cmp # other.cmp)
    /\ (other.s = K_dc_upper /\ s = K_dc_lower) =>
         (cmp.res = Ok /\ other.cmp.res = Ok /\ cmp = other.cmp)

\* The comparator of "st=SP" is kept and the comparator of "st=sp" built.
C9_Witness ==
  /\ pc = "compared"
  /\ other.set
  /\ other.s = K_st_upper
  /\ s = K_st_lower
  /\ cmp.res = Ok
  /\ other.cmp.res = Ok
  /\ cmp.rdns[1].ty = "St"

HasMarkerAt(t, k) == k + 5 <= Len(t) /\ SubSeq(t, k, k + 5) = MARKER
HasMarker(t) == \E k \in 1..Len(t) : HasMarkerAt(t, k)

\* The filtered and ASCII-lowercased value of the DN's i-th RDN.
Lowered(i) == make_ascii_lowercase(FilterValue(dn[i].value).s)

\* The organizationIdentifier RDNs whose lowercased value has no marker.
Unmarked ==
  {i \in 1..Len(dn) :
     dn[i].ty = "OrganizationIdentifier" /\ ~HasMarker(Lowered(i))}

\* C10: marker clean-up.  The comparator value of an organizationIdentifier
\* RDN is its filtered, ASCII-lowercased value from the first "ofbbr-" on
\* (what precedes the marker dropped, the marker and what follows kept),
\* trimmed; without the marker comparator() fails with InvalidValue for
\* OrganizationIdentifier.  The value of any other type is never cut, and
\* InvalidValue is returned for no other reason.
C10_MarkerCleanup ==
  pc = "compared" =>
    /\ cmp.res = Ok =>
         \A i \in 1..Len(dn) :
           IF dn[i].ty = "OrganizationIdentifier"
           THEN \E k \in 1..Len(Lowered(i)) :
                  /\ HasMarkerAt(Lowered(i), k)
                  /\ \A j \in 1..(k - 1) : ~HasMarkerAt(Lowered(i), j)
                  /\ cmp.rdns[i].value =
                       trim(SubSeq(Lowered(i), k, Len(Lowered(i))))
                  /\ SubSeq(cmp.rdns[i].value, 1, 6) = MARKER
           ELSE cmp.rdns[i].value \in
                  {trim(FilterValue(dn[i].value).s), trim(Lowered(i))}
    /\ (cmp.res.kind = "Err" /\ cmp.res.err = "InvalidValue") =>
         \E i \in Unmarked : cmp.res.text = Lowered(i)
    /\ ((\A i \in 1..Len(dn) : FilterValue(dn[i].value).ok) /\ Unmarked # {}) =>
         (cmp.res.kind = "Err" /\ cmp.res.err = "InvalidValue")

\* The comparator of an organizationIdentifier "X OFBBR-y" was built: its
\* value is "ofbbr-y".
C10_Witness ==
  /\ pc = "compared"
  /\ dn = <<Rdn("OrganizationIdentifier",
                Str(<<"X", " ", "O", "F", "B", "B", "R", "-", "y">>))>>
  /\ cmp.res = Ok
  /\ cmp.rdns[1].value = Str(<<"o", "f", "b", "b", "r", "-", "y">>)

\* ------------------------------------------------------------------------
\* The ten reserved symbols and the five hex-encoded types, as the format
\* lists them.
C11_Reserved ==
  {Ord(" "), Ord("\""), Ord("#"), Ord("+"), Ord(","), Ord(";"), Ord("<"),
   Ord("="), Ord(">"), Ord("\\")}

C11_HexTypes ==
  {"BusinessCategory", "JurisdictionCountryName", "SerialNumber",
   "OrganizationIdentifier", "OrganizationalUnitName"}

\* The value of a lowercase hex digit; -1 for any other character.
C11_Digit(c) ==
  IF c \in 48..57 THEN c - 48 ELSE IF c \in 97..102 THEN c - 87 ELSE -1

\* How many reserved symbols v has among its first i characters.
C11_ReservedUpTo(v, i) == Cardinality({j \in 1..i : v[j] \in C11_Reserved})

\* The length of the Value the format gives to an RDN.
C11_ValueLen(rdn) ==
  IF rdn.ty \in C11_HexTypes
  THEN 1 + 2 * Len(Utf8Encode(rdn.value))
  ELSE Len(rdn.value) + C11_ReservedUpTo(rdn.value, Len(rdn.value))

\* t is the Value of the RDN: '#' and two lowercase hex digits for each byte
\* of the value's UTF-8 form, or the value's characters, in order, with one
\* backslash before each reserved symbol and nothing else added.
C11_IsValueOf(t, rdn) ==
  LET v == rdn.value
      b == Utf8Encode(v)
      p(i) == i + C11_ReservedUpTo(v, i)
  IN
  /\ Len(t) = C11_ValueLen(rdn)
  /\ IF rdn.ty \in C11_HexTypes
     THEN /\ t[1] = HASH
          /\ \A k \in 1..Len(b) :
               /\ C11_Digit(t[2 * k]) >= 0
               /\ C11_Digit(t[2 * k + 1]) >= 0
               /\ 16 * C11_Digit(t[2 * k]) + C11_Digit(t[2 * k + 1]) = b[k]
     ELSE \A i \in 1..Len(v) :
               /\ t[p(i)] = v[i]
               /\ v[i] \in C11_Reserved => t[p(i) - 1] = BACKSLASH

\* C11: the serializer's format.  to_of_string yields a string of characters
\* for every DN there is, with no error; the string is, for the RDNs from the last stored to the
\* first, Label=Value joined by ','; the Value of the five hex-encoded types
\* is '#' and the lowercase hex of the value's UTF-8 bytes, the Value of
\* every other type is the value with exactly one backslash before each of
\* the ten reserved symbols, the other characters unchanged and in order.
C11_SerializerFormat ==
  /\ HaveDn => LET r == to_of_string(dn) IN
                 \A i \in 1..Len(r) : r[i] \in 0..1114111
  /\ pc = "serialized" =>
       LET n == Len(dn)
           piece(k) == dn[n + 1 - k]
           label(k) == as_of_str(piece(k).ty)
           end[k \in 0..n] ==
             IF k = 0 THEN 0
             ELSE end[k - 1] + (IF k > 1 THEN 1 ELSE 0) + Len(label(k)) + 1
                    + C11_ValueLen(piece(k))
           start(k) == end[k] - C11_ValueLen(piece(k)) - Len(label(k))
       IN
       /\ Len(out) = end[n]
       /\ \A k \in 1..n :
            /\ k > 1 => out[start(k) - 1] = COMMA
            /\ SubSeq(out, start(k), start(k) + Len(label(k)) - 1) = label(k)
            /\ out[start(k) + Len(label(k))] = EQUALS
            /\ C11_IsValueOf(SubSeq(out, start(k) + Len(label(k)) + 1, end[k]),
                             piece(k))

\* The DN of the test correctly_escape_special_symbol_in_to_of_string was
\* serialized to the text the test expects.
C11_Witness ==
  /\ pc = "serialized"
  /\ round = 0
  /\ dn = <<Rdn("Cn", T_escape_value)>>
  /\ out = Str(<<"C", "N", "=", "\\", " ", "\\", "\"", "\\", ",", "\\", "#",
                 "\\", "+", "\\", ",", "\\", ";", "\\", "<", "\\", "=", "\\",
                 ">", "\\", "\\">>)

\* ------------------------------------------------------------------------
\* The type text of a registry input: what stands before "=a".
C12_TypeText == SubSeq(s, 1, Len(s) - 2)

\* A text with its ASCII capitals made small.
C12_Fold(t) == [i \in 1..Len(t) |-> IF t[i] \in 65..90 THEN t[i] + 32 ELSE t[i]]

\* A text without the "oid." it begins with, in whatever case, if it does.
C12_Stripped(t) ==
  IF Len(t) >= 4 /\ C12_Fold(SubSeq(t, 1, 4)) = OID_PREFIX
  THEN SubSeq(t, 5, Len(t))
  ELSE t

\* from_str resolved the type text as the table resolves the key: the RDN
\* has the type of the row named key, and with no such row the result is
\* InvalidType carrying the type text as written (trimmed).
C12_ResolvedBy(key) ==
  LET rows == {e \in RdnTypeTable : e.name = key} IN
  IF rows = {}
  THEN result = ErrText("InvalidType", trim(C12_TypeText)) /\ dn = <<>>
  ELSE /\ result = Ok
       /\ Len(dn) = 1
       /\ \A e \in rows : dn[1].ty = e.ty
       /\ dn[1].value = Str(<<"a">>)

\* The registry matching with an optional "oid." prefix stripped: "cn", "CN",
\* "2.5.4.3" and "oid.2.5.4.3" all resolve to Cn.
C12_OidPrefixStripped ==
  (round = 0 /\ pc = "parsed" /\ s \in RegistryInputs) =>
    C12_ResolvedBy(C12_Stripped(C12_Fold(trim(C12_TypeText))))

\* C12: registry resolution.  RdnType::from_str matches the whole type text,
\* case-insensitively, against the fixed table of short names and OIDs, and
\* strips no prefix: "cn", "CN" and "2.5.4.3" resolve to Cn, "oid.2.5.4.3"
\* does not resolve; any text with no match fails with InvalidType carrying
\* the text as it was written, and is never coerced to some type.
C12_RegistryResolution ==
  /\ (round = 0 /\ pc = "parsed" /\ s \in RegistryInputs) =>
       /\ C12_ResolvedBy(C12_Fold(trim(C12_TypeText)))
       /\ C12_TypeText \in {R_cn_lower, R_cn_upper, R_cn_mixed, R_cn_oid} =>
            result = Ok /\ dn = <<Rdn("Cn", Str(<<"a">>))>>
       /\ C12_TypeText = R_cn_oid_prefixed =>
            result = ErrText("InvalidType", R_cn_oid_prefixed)
       /\ C12_TypeText \in {R_unknown, R_padded} =>
            result = ErrText("InvalidType", R_unknown)
  /\ (pc = "parsed" /\ result.kind = "Err" /\ result.err = "InvalidType") =>
       /\ result.text = trim(Utf8Decode(acc).s)
       /\ \A e \in RdnTypeTable : e.name # C12_Fold(result.text)
       /\ dn = <<>>

\* from_str was given "oid.2.5.4.3=a" and returned InvalidType("oid.2.5.4.3").
C12_Witness ==
  /\ pc = "parsed"
  /\ round = 0
  /\ s = R_cn_oid_prefixed \o Str(<<"=", "a">>)
  /\ result = ErrText("InvalidType", R_cn_oid_prefixed)

\* ------------------------------------------------------------------------
\* The variants of enum Error.
C13_ErrorKinds ==
  {"UnexpectedEof", "UnexpectedCharacter", "InvalidType", "InvalidValue",
   "UnsupportedMultiValueRdns", "Utf8", "FromUtf8", "Hex"}

\* A complete DN was returned: the input was read to its end, no escape was
\* left open, and the DN holds every RDN pushed, the last pushed first, each
\* with a type of the registry and a value that is not empty.
C13_CompleteDn ==
  /\ result' = Ok
  /\ AtEof
  /\ escaping.st = "None"
  /\ Len(dn') \in {Len(rdns), Len(rdns) + 1}
  /\ \A i \in 1..Len(rdns) : dn'[Len(dn') + 1 - i] = rdns[i]
  /\ \A i \in 1..Len(dn') : dn'[i].ty \in RdnType /\ dn'[i].value # <<>>

\* A typed error was returned, and no DN with it.
C13_TypedError ==
  /\ result'.kind = "Err"
  /\ result'.err \in C13_ErrorKinds
  /\ dn' = <<>>

\* What the claim asks of one step of the scan.
C13_Step ==
  pc = "scan" =>
    /\ pos <= Len(chars) + 1
    /\ pc' \in {"scan", "parsed"}
    /\ pc' = "scan" =>
         /\ pos <= Len(chars)
         /\ pos' = pos + 1
         /\ result' = Pending
         /\ dn' = <<>>
    /\ pc' = "parsed" => (C13_CompleteDn \/ C13_TypedError)

\* C13: no panic and no partial result.  Every step of from_str either takes
\* the next item of the input or ends the call, and the item after the last
\* byte ends it; the call never panics (Escaping::consume is called only in
\* the states Started and Hex, never in None); it ends with a complete DN or
\* with a typed error, and with an error no DN is returned, whatever RDNs
\* were parsed before.
C13_NoPanicNoPartialResult == [][C13_Step]_vars

\* from_str failed inside an escape sequence after it had parsed one RDN, and
\* returned no DN.
C13_Witness ==
  /\ pc = "parsed"
  /\ result = Err("UnexpectedEof")
  /\ escaping.st = "Started"
  /\ Len(rdns) = 1
  /\ dn = <<>>

\* ------------------------------------------------------------------------
\* The characters of the assembled values by the outcome the classification
\* gives them; every other character of the values is kept.  TAB..CR and NEL
\* are controls, and so ignorable, and are white space.
C14_ProhibitedChars == {8206, 57344}

C14_SpaceChars == {9, 10, 11, 12, 13, 133, 32, 160, 8232}

C14_IgnoredChars == {173, 8203, 1, 65279}

\* What the classification makes of a value without a prohibited character:
\* one space for each space equivalent, nothing for an ignored character,
\* the character itself otherwise, in the order of the value.
C14_Mapped(v) ==
  Concat([i \in 1..Len(v) |->
            IF v[i] \in C14_SpaceChars THEN <<SPACE>>
            ELSE IF v[i] \in C14_IgnoredChars THEN <<>>
            ELSE <<v[i]>>])

\* C14: the classification of RdnComparator::new.  Each character of the
\* value has one outcome, in the priority prohibited, space equivalent,
\* ignored, kept.  The first prohibited character c, wherever it stands (also
\* before the marker of an organizationIdentifier), ends the call with
\* UnexpectedCharacter(c).  Otherwise the compared text is made of one space
\* for each space equivalent (TAB..CR and NEL among them, which are not
\* dropped, and runs of them are not collapsed), nothing for an ignored
\* character and every other character unchanged; the case folding and the
\* final trim act on that text.
C14_Classification ==
  (pc = "compared" /\ Len(dn) = 1) =>
    LET v == dn[1].value
        t == dn[1].ty
        bad == {i \in 1..Len(v) : v[i] \in C14_ProhibitedChars}
        m == C14_Mapped(v)
        folded == IF t \in {"Cn", "L", "St", "O", "Ou", "C",
                            "JurisdictionCountryName", "OrganizationalUnitName"}
                  THEN m
                  ELSE [i \in 1..Len(m) |->
                          IF m[i] \in 65..90 THEN m[i] + 32 ELSE m[i]]
    IN
    IF bad # {}
    THEN /\ cmp.res = ErrCh(v[CHOOSE i \in bad : \A j \in bad : i <= j])
         /\ cmp.rdns = <<>>
    ELSE t # "OrganizationIdentifier" =>
           /\ cmp.res = Ok
           /\ cmp.rdns = <<Rdn(t, trim(folded))>>

\* The comparator of a Cn whose value holds NEL, FF, SOFT HYPHEN and VT was
\* built: the run FF, SOFT HYPHEN, VT gave two spaces.
C14_Witness ==
  /\ pc = "compared"
  /\ dn = <<Rdn("Cn", <<133, 97, 12, 173, 11, 65, 133>>)>>
  /\ cmp.res = Ok
  /\ cmp.rdns = <<Rdn("Cn", <<97, 32, 32, 65>>)>>

====
